---- MODULE Spec2Model ----
(***************************************************************************)
(* Model of src/libaktualizr/package_manager/swupdatemanager.cc: the       *)
(* SWUpdate package manager of aktualizr.                                  *)
(*                                                                         *)
(* Three threads take part in one install attempt:                         *)
(*   bridge  the caller's thread inside install / swupdate_install,        *)
(*   dl      download_thread: http_->download calling DownloadHandler,     *)
(*   eng     the installer engine's thread calling readimage / endupdate.  *)
(* They share the process-wide statics of lines 80-92.  exit(-1) ends the  *)
(* whole process; a later process start re-creates the statics.            *)
(*                                                                         *)
(* An image is a sequence of bytes; a digest is modelled as the pair of    *)
(* the algorithm and the content it was computed over (collision free).    *)
(***************************************************************************)
EXTENDS Integers, Sequences, FiniteSets, TLC

\* ------------------------------------------------------------------ bounds
\* Length in bytes of the targets that are installed.
MaxLen == 2
\* Largest chunk (size * nmemb) the fetch hands to DownloadHandler.
MaxChunk == 2

\* -------------------------------------------------------- program constants
EXIT_SUCCESS == 0
EXIT_FAILURE == 1
HTTP_OK == 200

Byte == {0, 1}
Threads == {"dl", "eng"}

VARIABLES
  proc,                 \* "running" | "exited" (after exit(-1))
  pc,                   \* position of bridge, dl and eng
  buffer_mutex,         \* "free" or the thread that owns the lock
  buffer_cv,            \* threads blocked in buffer_cv.wait
  data_buffer,          \* std::vector<char> data_buffer
  data_ready,           \* std::atomic<bool>
  data_read,            \* std::atomic<bool>
  unrecoverable_error,  \* std::atomic<bool>
  ds,                   \* *ds, the DownloadMetaStruct of the attempt
  chunk,                \* contents argument of the running DownloadHandler
  rc,                   \* rc of swupdate_install
  http_status,          \* response.http_status_code (0: no response yet)
  end_status,           \* status the engine passed to endupdate
  install_result,       \* result code returned by install
  finalize_result,      \* result code returned by the last finalizeInstall
  reboot_flag,          \* bootloader: durable reboot-pending marker
  rebooted,             \* bootloader: a reboot happened since process start
  running_image,        \* content of the image the system is running
  token_abort,          \* the caller's FlowControlToken has been signalled
  \* history of the current attempt, read by the properties only
  nPush,                \* frames DownloadHandler marked ready
  nPull,                \* frames readimage handed out
  pulledBytes,          \* sum of the sizes readimage returned
  faultCause,           \* which store of unrecoverable_error happened
  pushAfterAbort,       \* a frame was written after token_abort
  framesIntact,         \* each frame read through *pbuf held its chunk's bytes
  finTick               \* flips at every finalizeInstall call

sync == <<buffer_mutex, buffer_cv, data_buffer, data_ready, data_read,
          unrecoverable_error>>
boot == <<reboot_flag, rebooted, running_image>>
hist == <<nPush, nPull, pulledBytes, faultCause, pushAfterAbort,
          framesIntact>>
vars == <<proc, pc, sync, ds, chunk, rc, http_status, end_status,
          install_result, finalize_result, boot, token_abort, hist, finTick>>

\* ------------------------------------------------------------------ data
RECURSIVE SeqsOfLen(_)
SeqsOfLen(n) ==
  IF n = 0 THEN {<<>>}
  ELSE {Append(s, b) : s \in SeqsOfLen(n - 1), b \in Byte}

RECURSIVE SeqsUpTo(_)
SeqsUpTo(n) == IF n = 0 THEN {} ELSE SeqsOfLen(n) \cup SeqsUpTo(n - 1)

\* The chunks the network may deliver.
Chunks == SeqsUpTo(MaxChunk)

AllOf(b) == [i \in 1..MaxLen |-> b]
\* The images a target may describe and the system may run.
Images == {AllOf(0), AllOf(1)}

HashTypes == {"sha256", "sha512", "unknown"}

\* Hash of `content` under algorithm `type`.
Digest(type, content) == <<type, content>>
NoHash == <<>>

HashOf(type, img) == [type |-> type, hash |-> Digest(type, img)]

\* The hash lists of the targets: one SHA-256 entry for each image, and for
\* the all-zero image a SHA-512 entry, a SHA-512 entry followed by a SHA-256
\* entry, and an entry of an algorithm the hasher does not know.
HashLists ==
  {<<HashOf("sha256", img)>> : img \in Images}
  \cup {<<HashOf(ty, AllOf(0))>> : ty \in HashTypes \ {"sha256"}}
  \cup {<<HashOf("sha512", AllOf(0)), HashOf("sha256", AllOf(0))>>}

TargetSet == {[length |-> MaxLen, hashes |-> hs] : hs \in HashLists}

NullTarget == [length |-> 0, hashes |-> <<>>]

\* Uptane::Target::sha256Hash: the value of the target's SHA-256 entry.
RECURSIVE FirstSha256(_)
FirstSha256(hs) ==
  IF hs = <<>> THEN NoHash
  ELSE IF Head(hs).type = "sha256" THEN Head(hs).hash
  ELSE FirstSha256(Tail(hs))

sha256Hash(target) == FirstSha256(target.hashes)

\* MultiPartHasher: update appends to the hashed content, getHash digests it.
HasherUpdate(hashed, data) == hashed \o data
HasherGetHash(type, hashed) == Digest(type, hashed)

\* DownloadMetaStruct constructor: hash_type is the type of the first hash.
DownloadMetaStruct(target) ==
  [target |-> target,
   hash_type |-> target.hashes[1].type,
   downloaded_length |-> 0,
   hashed |-> <<>>]

NullDs == [target |-> NullTarget, hash_type |-> "none",
           downloaded_length |-> 0, hashed |-> <<>>]

\* DownloadMetaStruct::hasher(): throws for any other algorithm.
HasherThrows(d) == d.hash_type \notin {"sha256", "sha512"}

\* ------------------------------------------------------------ predicates
\* the bytes of the new chunk are left out of the comparison
OverLengthNoChunk(downloaded_length, downloaded, expected) ==
  downloaded_length > expected

\* line 206
OverLength(downloaded_length, downloaded, expected) ==
  downloaded_length + downloaded > expected

\* line 216: DownloadHandler's wait before it writes
CanWrite == ~data_ready \/ unrecoverable_error
\* line 250: DownloadHandler's wait after it wrote
WasRead == data_read \/ unrecoverable_error
\* readimage does not wait for a frame
CanReadAlways == TRUE
\* line 270: readimage's wait
CanRead == data_ready \/ unrecoverable_error

\* lines 229-233: the transfer is complete and its hash is not the expected
HashMismatch(d) ==
  /\ d.downloaded_length = d.target.length
  /\ HasherGetHash(d.hash_type, d.hashed) # sha256Hash(d.target)

\* the sign of the start result is read the wrong way round
StartFailedPositive(r) == r > 0

\* line 327
StartFailed(r) == r < 0

\* lines 364-369
InstallRes(err) == IF err THEN EXIT_FAILURE ELSE EXIT_SUCCESS

\* lines 136-142
InstallationResult(install_res) ==
  IF install_res > 0 THEN "InstallFailed" ELSE "NeedCompletion"

\* lines 120-123: the hard-wired hash, here the SHA-256 of the all-zero image
getCurrentHash == Digest("sha256", AllOf(0))

\* Bootloader::rebootDetected
rebootDetected == reboot_flag /\ rebooted

\* condition variable
NotifyOne(w) == IF w = {} THEN {w} ELSE {w \ {t} : t \in w}

\* -------------------------------------------------------------- initial
Volatile ==
  /\ proc = "running"
  /\ pc = [bridge |-> "idle", dl |-> "none", eng |-> "none"]
  /\ buffer_mutex = "free"
  /\ buffer_cv = {}
  /\ data_buffer = <<>>
  /\ data_ready = FALSE
  /\ data_read = FALSE
  /\ unrecoverable_error = FALSE
  /\ ds = NullDs
  /\ chunk = <<>>
  /\ rc = 0
  /\ http_status = 0
  /\ end_status = "none"
  /\ install_result = "none"
  /\ finalize_result = "none"
  /\ token_abort = FALSE
  /\ nPush = 0
  /\ nPull = 0
  /\ pulledBytes = 0
  /\ faultCause = "none"
  /\ pushAfterAbort = FALSE
  /\ framesIntact = TRUE

Init ==
  /\ Volatile
  /\ reboot_flag \in BOOLEAN
  /\ rebooted = FALSE
  /\ running_image = AllOf(0)
  /\ finTick = FALSE


\* A new process: the statics of lines 80-92 are constructed again.
ResetVolatile ==
  /\ proc' = "running"
  /\ pc' = [bridge |-> "idle", dl |-> "none", eng |-> "none"]
  /\ buffer_mutex' = "free"
  /\ buffer_cv' = {}
  /\ data_buffer' = <<>>
  /\ data_ready' = FALSE
  /\ data_read' = FALSE
  /\ unrecoverable_error' = FALSE
  /\ ds' = NullDs
  /\ chunk' = <<>>
  /\ rc' = 0
  /\ http_status' = 0
  /\ end_status' = "none"
  /\ install_result' = "none"
  /\ finalize_result' = "none"
  /\ token_abort' = FALSE
  /\ nPush' = 0
  /\ nPull' = 0
  /\ pulledBytes' = 0
  /\ faultCause' = "none"
  /\ pushAfterAbort' = FALSE
  /\ framesIntact' = TRUE

\* exit(-1): the process ends, nothing else of it runs any more.
Exit == proc' = "exited"

\* ------------------------------------------------- install (bridge thread)
\* install -> swupdate_install, lines 317-330: ds is replaced, the engine is
\* started; a start error returns EXIT_FAILURE at once.
Install(target, r) ==
  /\ proc = "running"
  /\ pc.bridge = "idle"
  /\ ds' = DownloadMetaStruct(target)
  /\ rc' = r
  /\ http_status' = 0
  /\ end_status' = "none"
  /\ token_abort' = FALSE
  /\ nPush' = 0 /\ nPull' = 0 /\ pulledBytes' = 0
  /\ faultCause' = IF unrecoverable_error THEN faultCause ELSE "none"
  /\ pushAfterAbort' = FALSE
  /\ framesIntact' = TRUE
  /\ IF StartFailed(r)
       THEN /\ pc' = [pc EXCEPT !.dl = "none", !.eng = "none"]
            /\ install_result' = InstallationResult(EXIT_FAILURE)
       ELSE /\ pc' = [bridge |-> "started", dl |-> "none", eng |-> "idle"]
            /\ install_result' = "none"
  /\ finalize_result' = "none"
  /\ finTick' = FALSE
  /\ UNCHANGED <<proc, sync, chunk, boot>>

\* lines 332-352: the download thread is created.
SpawnDownload ==
  /\ proc = "running"
  /\ pc.bridge = "started"
  /\ pc' = [pc EXCEPT !.bridge = "spawned", !.dl = "fetch"]
  /\ UNCHANGED <<proc, sync, ds, chunk, rc, http_status, end_status,
                 install_result, finalize_result, boot, token_abort, hist,
                 finTick>>

\* lines 354-357: the bridge blocks in pthread_cond_wait(&cv_end, &mymutex).
WaitEnd ==
  /\ proc = "running"
  /\ pc.bridge = "spawned"
  /\ pc' = [pc EXCEPT !.bridge = "waiting"]
  /\ UNCHANGED <<proc, sync, ds, chunk, rc, http_status, end_status,
                 install_result, finalize_result, boot, token_abort, hist,
                 finTick>>

\* the bridge does not wait for the download thread
DownloadJoinedAlways == TRUE

\* lines 360-362: download_thread.join() returns when the thread has ended
DownloadJoined == pc.dl = "done"

\* lines 358-369 and 137-141: after the wake-up the download thread is
\* joined, the error flag is read and install maps the result.
JoinAndReturn ==
  /\ proc = "running"
  /\ pc.bridge = "woken"
  /\ DownloadJoined
  /\ pc' = [pc EXCEPT !.bridge = "idle"]
  /\ install_result' = InstallationResult(InstallRes(unrecoverable_error))
  /\ UNCHANGED <<proc, sync, ds, chunk, rc, http_status, end_status,
                 finalize_result, boot, token_abort, hist, finTick>>

\* ------------------------------------------- download thread (dl), fetch
\* http_->download hands the next chunk to DownloadHandler.
DeliverChunk(c) ==
  /\ proc = "running"
  /\ pc.dl = "fetch"
  /\ pc' = [pc EXCEPT !.dl = "dh_entry"]
  /\ chunk' = c
  /\ UNCHANGED <<proc, sync, ds, rc, http_status, end_status, install_result,
                 finalize_result, boot, token_abort, hist, finTick>>

\* DownloadHandler lines 197-211: a pending error or an over-long download
\* ends the process; in the latter case the error flag is stored first.
HandlerEntry ==
  /\ proc = "running"
  /\ pc.dl = "dh_entry"
  /\ IF unrecoverable_error
       THEN /\ Exit
            /\ UNCHANGED <<pc, sync, faultCause>>
       ELSE IF OverLength(ds.downloaded_length, Len(chunk), ds.target.length)
         THEN /\ unrecoverable_error' = TRUE
              /\ buffer_cv' = {}
              /\ faultCause' = "TransferLengthExceeded"
              /\ Exit
              /\ UNCHANGED <<pc, buffer_mutex, data_buffer, data_ready,
                             data_read>>
         ELSE /\ pc' = [pc EXCEPT !.dl = "dh_lock"]
              /\ UNCHANGED <<proc, sync, faultCause>>
  /\ UNCHANGED <<ds, chunk, rc, http_status, end_status, install_result,
                 finalize_result, boot, token_abort, nPush, nPull,
                 pulledBytes, pushAfterAbort, framesIntact, finTick>>

\* line 214 and every re-acquisition inside buffer_cv.wait: the lock is taken
\* and the predicate of the wait the thread is in gets evaluated next.
HandlerLock ==
  /\ proc = "running"
  /\ \/ /\ pc.dl = "dh_lock"
        /\ pc' = [pc EXCEPT !.dl = "dh_wait1"]
     \/ /\ pc.dl = "dh_blocked1"
        /\ "dl" \notin buffer_cv
        /\ pc' = [pc EXCEPT !.dl = "dh_wait1"]
     \/ /\ pc.dl = "dh_blocked2"
        /\ "dl" \notin buffer_cv
        /\ pc' = [pc EXCEPT !.dl = "dh_wait2"]
  /\ buffer_mutex = "free"
  /\ buffer_mutex' = "dl"
  /\ UNCHANGED <<proc, buffer_cv, data_buffer, data_ready, data_read,
                 unrecoverable_error, ds, chunk, rc, http_status, end_status,
                 install_result, finalize_result, boot, token_abort, hist,
                 finTick>>

\* line 216: wait until the slot is free or an error is pending.  Only this
\* thread stores the error flag without the lock, so the check and the
\* blocking are one step for it.
HandlerWait1 ==
  /\ proc = "running"
  /\ pc.dl = "dh_wait1"
  /\ IF CanWrite
       THEN /\ pc' = [pc EXCEPT !.dl = "dh_write"]
            /\ UNCHANGED <<buffer_mutex, buffer_cv>>
       ELSE /\ pc' = [pc EXCEPT !.dl = "dh_blocked1"]
            /\ buffer_mutex' = "free"
            /\ buffer_cv' = buffer_cv \cup {"dl"}
  /\ UNCHANGED <<proc, data_buffer, data_ready, data_read,
                 unrecoverable_error, ds, chunk, rc, http_status, end_status,
                 install_result, finalize_result, boot, token_abort, hist,
                 finTick>>

\* The DownloadMetaStruct after lines 226-227.
Hashed(d, c) ==
  [d EXCEPT !.hashed = HasherUpdate(d.hashed, c),
            !.downloaded_length = d.downloaded_length + Len(c)]

\* lines 218-247 (and 256-260 for the exception of hasher()), under the lock.
HandlerWrite ==
  /\ proc = "running"
  /\ pc.dl = "dh_write"
  /\ IF unrecoverable_error
       THEN /\ Exit
            /\ UNCHANGED <<pc, sync, ds, hist>>
       ELSE IF HasherThrows(ds)
         THEN /\ data_buffer' = chunk
              /\ unrecoverable_error' = TRUE
              /\ buffer_cv' = {}
              /\ buffer_mutex' = "free"
              /\ faultCause' = "Exception"
              /\ pushAfterAbort' = (pushAfterAbort \/ token_abort)
              /\ Exit
              /\ UNCHANGED <<pc, data_ready, data_read, ds, nPush, nPull,
                             pulledBytes, framesIntact>>
         ELSE IF HashMismatch(Hashed(ds, chunk))
           THEN /\ data_buffer' = chunk
                /\ ds' = Hashed(ds, chunk)
                /\ unrecoverable_error' = TRUE
                /\ buffer_cv' = {}
                /\ faultCause' = "IntegrityMismatch"
                /\ pushAfterAbort' = (pushAfterAbort \/ token_abort)
                /\ Exit
                /\ UNCHANGED <<pc, buffer_mutex, data_ready, data_read,
                               nPush, nPull, pulledBytes, framesIntact>>
           ELSE /\ data_buffer' = chunk
                /\ ds' = Hashed(ds, chunk)
                /\ data_ready' = TRUE
                /\ data_read' = FALSE
                /\ buffer_cv' \in NotifyOne(buffer_cv)
                /\ nPush' = nPush + 1
                /\ pushAfterAbort' = (pushAfterAbort \/ token_abort)
                /\ pc' = [pc EXCEPT !.dl = "dh_wait2"]
                /\ UNCHANGED <<proc, buffer_mutex, unrecoverable_error,
                               nPull, pulledBytes, faultCause,
                               framesIntact>>
  /\ UNCHANGED <<chunk, rc, http_status, end_status, install_result,
                 finalize_result, boot, token_abort, finTick>>

\* lines 250-263: wait until the frame was read or an error is pending, then
\* exit on the error or return the chunk's size to the fetch.
HandlerWait2 ==
  /\ proc = "running"
  /\ pc.dl = "dh_wait2"
  /\ IF WasRead
       THEN IF unrecoverable_error
              THEN /\ Exit
                   /\ UNCHANGED <<pc, buffer_mutex, buffer_cv, chunk>>
              ELSE /\ pc' = [pc EXCEPT !.dl = "fetch"]
                   /\ buffer_mutex' = "free"
                   /\ chunk' = <<>>
                   /\ UNCHANGED <<proc, buffer_cv>>
       ELSE /\ pc' = [pc EXCEPT !.dl = "dh_blocked2"]
            /\ buffer_mutex' = "free"
            /\ buffer_cv' = buffer_cv \cup {"dl"}
            /\ UNCHANGED <<proc, chunk>>
  /\ UNCHANGED <<data_buffer, data_ready, data_read, unrecoverable_error, ds,
                 rc, http_status, end_status, install_result,
                 finalize_result, boot, token_abort, hist, finTick>>

\* http_->download returns its response (line 339).
FetchReturn(status) ==
  /\ proc = "running"
  /\ pc.dl = "fetch"
  /\ http_status' = status
  /\ pc' = [pc EXCEPT !.dl = IF status # HTTP_OK THEN "store" ELSE "done"]
  /\ UNCHANGED <<proc, sync, ds, chunk, rc, end_status, install_result,
                 finalize_result, boot, token_abort, hist, finTick>>

\* line 349: the error flag is stored, without the lock.
StoreTransportError ==
  /\ proc = "running"
  /\ pc.dl = "store"
  /\ unrecoverable_error' = TRUE
  /\ faultCause' = IF unrecoverable_error THEN faultCause
                   ELSE "TransportFailure"
  /\ pc' = [pc EXCEPT !.dl = "notify"]
  /\ UNCHANGED <<proc, buffer_mutex, buffer_cv, data_buffer, data_ready,
                 data_read, ds, chunk, rc, http_status, end_status,
                 install_result, finalize_result, boot, token_abort, nPush,
                 nPull, pulledBytes, pushAfterAbort, framesIntact, finTick>>

\* line 350: buffer_cv.notify_all(), without the lock; the thread ends.
NotifyTransportError ==
  /\ proc = "running"
  /\ pc.dl = "notify"
  /\ buffer_cv' = {}
  /\ pc' = [pc EXCEPT !.dl = "done"]
  /\ UNCHANGED <<proc, buffer_mutex, data_buffer, data_ready, data_read,
                 unrecoverable_error, ds, chunk, rc, http_status, end_status,
                 install_result, finalize_result, boot, token_abort, hist,
                 finTick>>

\* ----------------------------------------------- engine thread (eng), pull
\* readimage line 267 and every re-acquisition inside buffer_cv.wait.
ReadimageLock ==
  /\ proc = "running"
  /\ \/ pc.eng = "idle"
     \/ pc.eng = "ri_blocked" /\ "eng" \notin buffer_cv
  /\ buffer_mutex = "free"
  /\ buffer_mutex' = "eng"
  /\ pc' = [pc EXCEPT !.eng = "ri_pred"]
  /\ UNCHANGED <<proc, buffer_cv, data_buffer, data_ready, data_read,
                 unrecoverable_error, ds, chunk, rc, http_status, end_status,
                 install_result, finalize_result, boot, token_abort, hist,
                 finTick>>

\* line 270: the predicate of the wait is evaluated under the lock.
ReadimagePred ==
  /\ proc = "running"
  /\ pc.eng = "ri_pred"
  /\ pc' = [pc EXCEPT !.eng = IF CanRead THEN "ri_woken" ELSE "ri_enqueue"]
  /\ UNCHANGED <<proc, sync, ds, chunk, rc, http_status, end_status,
                 install_result, finalize_result, boot, token_abort, hist,
                 finTick>>

\* line 270: the predicate was false, the thread releases the lock and blocks.
ReadimageBlock ==
  /\ proc = "running"
  /\ pc.eng = "ri_enqueue"
  /\ buffer_mutex' = "free"
  /\ buffer_cv' = buffer_cv \cup {"eng"}
  /\ pc' = [pc EXCEPT !.eng = "ri_blocked"]
  /\ UNCHANGED <<proc, data_buffer, data_ready, data_read,
                 unrecoverable_error, ds, chunk, rc, http_status, end_status,
                 install_result, finalize_result, boot, token_abort, hist,
                 finTick>>

\* lines 277-280: *pbuf is set to the storage of data_buffer_copy, a local
\* vector that is destroyed when readimage returns; what the engine reads
\* through the pointer afterwards is any bytes of that size.
Dangling(buf) == SeqsOfLen(Len(buf))

\* lines 272-288: -1 on an error, else the frame is handed out, the slot is
\* marked read and the producer is notified.
ReadimageTake ==
  /\ proc = "running"
  /\ pc.eng = "ri_woken"
  /\ buffer_mutex' = "free"
  /\ IF unrecoverable_error
       THEN /\ pc' = [pc EXCEPT !.eng = "aborted"]
            /\ UNCHANGED <<buffer_cv, data_ready, data_read, nPull,
                           pulledBytes, framesIntact>>
       ELSE /\ data_ready' = FALSE
            /\ \E seen \in Dangling(data_buffer) :
                 framesIntact' = (framesIntact /\ seen = data_buffer)
            /\ data_read' = TRUE
            /\ buffer_cv' \in NotifyOne(buffer_cv)
            /\ nPull' = nPull + 1
            /\ pulledBytes' = pulledBytes + Len(data_buffer)
            /\ pc' = [pc EXCEPT !.eng = "idle"]
  /\ UNCHANGED <<proc, data_buffer, unrecoverable_error, ds, chunk, rc,
                 http_status, end_status, install_result, finalize_result,
                 boot, token_abort, nPush, faultCause, pushAfterAbort,
                 finTick>>

\* The statuses the engine may report: FAILURE after an aborted pull.
EndStatuses == IF pc.eng = "aborted" THEN {"FAILURE"}
               ELSE {"SUCCESS", "FAILURE"}

\* endupdate, lines 300-315: cv_end is signalled; a bridge that is not yet
\* waiting does not see the signal.
EndUpdate(status) ==
  /\ proc = "running"
  /\ pc.eng \in {"idle", "aborted"}
  /\ status \in EndStatuses
  /\ end_status' = status
  /\ pc' = [pc EXCEPT !.eng = "done",
                      !.bridge = IF @ = "waiting" THEN "woken" ELSE @]
  /\ UNCHANGED <<proc, sync, ds, chunk, rc, http_status, install_result,
                 finalize_result, boot, token_abort, hist, finTick>>

\* ------------------------------------------------------------ environment
\* The caller signals its FlowControlToken while the fetch is between two
\* chunks.
AbortToken ==
  /\ proc = "running"
  /\ pc.dl = "fetch"
  /\ ~token_abort
  /\ token_abort' = TRUE
  /\ UNCHANGED <<proc, pc, sync, ds, chunk, rc, http_status, end_status,
                 install_result, finalize_result, boot, hist, finTick>>

\* The process is started again after exit(-1).
ProcessStart ==
  /\ proc = "exited"
  /\ ResetVolatile
  /\ UNCHANGED <<boot, finTick>>

\* completeInstall, lines 144-147: bootloader_->reboot(); the system comes
\* up again running some image, with a new process.
completeInstall ==
  /\ proc = "running"
  /\ pc.bridge = "idle"
  /\ install_result = "NeedCompletion"
  /\ rebooted' = TRUE
  /\ running_image' \in Images
  /\ ResetVolatile
  /\ UNCHANGED <<reboot_flag, finTick>>

\* ---------------------------------------------------------- finalizeInstall
\* lines 150-165: the result code.
FinalizeCode(detected, current_hash, target) ==
  IF ~detected THEN "NeedCompletion"
  ELSE IF current_hash # sha256Hash(target) THEN "InstallFailed"
  ELSE "Ok"

\* the marker is cleared whether or not a reboot was detected
FinalizeClearsAlways(detected, code) == TRUE

\* the marker is cleared on the success path only
FinalizeClearsOnOk(detected, code) == detected /\ code = "Ok"

\* lines 150-167: whether bootloader_->rebootFlagClear() is reached.
FinalizeClears(detected, code) == detected

finalizeInstall(target) ==
  /\ proc = "running"
  /\ pc.bridge = "idle"
  /\ ds = NullDs
  /\ LET code == FinalizeCode(rebootDetected, getCurrentHash, target)
     IN /\ finalize_result' = code
        /\ reboot_flag' = IF FinalizeClears(rebootDetected, code) THEN FALSE
                          ELSE reboot_flag
  /\ finTick' = ~finTick
  /\ UNCHANGED <<proc, pc, sync, ds, chunk, rc, http_status, end_status,
                 install_result, rebooted, running_image, token_abort, hist>>

\* ------------------------------------------------------------------- spec
StartRcs == {-1, 0}
HttpStatuses == {HTTP_OK, 404}

Next ==
  \/ \E t \in TargetSet, r \in StartRcs : Install(t, r)
  \/ SpawnDownload
  \/ WaitEnd
  \/ JoinAndReturn
  \/ \E c \in Chunks : DeliverChunk(c)
  \/ HandlerEntry
  \/ HandlerLock
  \/ HandlerWait1
  \/ HandlerWrite
  \/ HandlerWait2
  \/ \E s \in HttpStatuses : FetchReturn(s)
  \/ StoreTransportError
  \/ NotifyTransportError
  \/ ReadimageLock
  \/ ReadimagePred
  \/ ReadimageBlock
  \/ ReadimageTake
  \/ \E s \in {"SUCCESS", "FAILURE"} : EndUpdate(s)
  \/ AbortToken
  \/ ProcessStart
  \/ completeInstall
  \/ \E t \in TargetSet : finalizeInstall(t)

Spec == Init /\ [][Next]_vars

\* ---------------------------------------------------------------- sanity
TypeOK ==
  /\ proc \in {"running", "exited"}
  /\ buffer_mutex \in {"free", "dl", "eng"}
  /\ buffer_cv \subseteq Threads
  /\ data_ready \in BOOLEAN /\ data_read \in BOOLEAN
  /\ unrecoverable_error \in BOOLEAN
  /\ install_result \in {"none", "InstallFailed", "NeedCompletion"}
  /\ finalize_result \in {"none", "Ok", "InstallFailed", "NeedCompletion"}
  /\ nPush \in 0..MaxLen /\ nPull \in 0..MaxLen

\* Between attempts no thread of an earlier attempt is left running.
QuiescentWhenIdle ==
  pc.bridge = "idle" => pc.dl \in {"none", "done"} /\ pc.eng \in {"none", "done"}

\* ============================================================ properties
\* The attempt delivered exactly target.length bytes.
FullLength == ds.target # NullTarget /\ ds.downloaded_length = ds.target.length
\* The algorithm of the attempt's target is one the hasher supports.
Supported == ds.hash_type \in {"sha256", "sha512"}
\* The digest of the delivered bytes, under the target's algorithm, is the
\* expected value the target carries for that algorithm (its first hash).
DigestMatches ==
  HasherGetHash(ds.hash_type, ds.hashed) = ds.target.hashes[1].hash
\* The running image's digest is the one target t expects.
RunningMatches(t) ==
  Digest(t.hashes[1].type, running_image) = t.hashes[1].hash
\* The step is a call of finalizeInstall.
FinalizeStep == finTick' # finTick /\ finalize_result' # "none"

\* C1: pushes and successful pulls alternate, starting with a push: the
\* number of frames marked ready is the number of frames pulled or one more,
\* and the slot is marked ready exactly when one frame is outstanding.
C1_Alternation ==
  /\ nPull <= nPush
  /\ nPush <= nPull + 1
  /\ data_ready <=> (nPush = nPull + 1)

\* Two frames went through the slot, each pulled before the next was pushed,
\* and a third push is not there.
C1_Witness == nPush = 2 /\ nPull = 2 /\ ~data_ready

\* C2: the bytes returned by successful pulls of an attempt never sum to
\* more than target.length.
C2_PulledWithinLength == pulledBytes <= ds.target.length

\* The over-length fault was recorded after the consumer had pulled all
\* target.length bytes.
C2_Witness ==
  /\ faultCause = "TransferLengthExceeded"
  /\ pulledBytes = ds.target.length
  /\ unrecoverable_error

\* C3: when the delivered bytes sum to target.length and their digest is not
\* the expected one, the attempt ends with InstallFailed returned to the
\* caller of install: the process is still there and the result is never
\* NeedCompletion.
C3_MismatchIsInstallFailed ==
  (FullLength /\ Supported /\ ~DigestMatches)
    => (proc = "running" /\ install_result \in {"none", "InstallFailed"})

\* C4: for SHA-256 and SHA-512 targets, delivered bytes that sum to
\* target.length and whose digest is the expected one raise no integrity
\* fault, and an attempt that returns without a fault returns NeedCompletion.
C4_MatchingDigestNeedsCompletion ==
  (FullLength /\ Supported /\ DigestMatches)
    => /\ faultCause # "IntegrityMismatch"
       /\ (install_result # "none" /\ ~unrecoverable_error)
            => install_result = "NeedCompletion"

\* C5: finalizeInstall without a detected reboot returns NeedCompletion and
\* changes nothing else, the reboot-pending marker included.
C5_FinalizeWithoutReboot ==
  [][(FinalizeStep /\ ~rebootDetected)
       => /\ finalize_result' = "NeedCompletion"
          /\ UNCHANGED <<proc, pc, sync, ds, chunk, rc, http_status,
                         end_status, install_result, boot, token_abort,
                         hist>>]_vars

\* finalizeInstall was called an even number of times with the marker set
\* and no reboot: the marker is still set and the result is NeedCompletion.
C5_Witness ==
  /\ finalize_result = "NeedCompletion"
  /\ ~finTick
  /\ reboot_flag /\ ~rebooted

\* C6: finalizeInstall with a reboot detected returns Ok exactly when the
\* digest of the running image is the target's expected digest, and
\* InstallFailed exactly when it is not.
C6_FinalizeComparesRunningImage ==
  [][\A t \in TargetSet :
       (finalizeInstall(t) /\ rebootDetected)
         => /\ finalize_result' = "Ok" <=> RunningMatches(t)
            /\ finalize_result' = "InstallFailed" <=> ~RunningMatches(t)]_vars

\* C7: a finalizeInstall that detects a reboot leaves the marker cleared, so
\* no reboot is detected afterwards; no other step clears the marker.
C7_MarkerClearedByFinalize ==
  [][/\ (FinalizeStep /\ rebootDetected)
          => (~reboot_flag' /\ ~rebootDetected')
     /\ (reboot_flag /\ ~reboot_flag')
          => (FinalizeStep /\ rebootDetected)]_vars

\* finalizeInstall found another image than the expected one running and
\* cleared the marker.
C7_Witness ==
  /\ finalize_result = "InstallFailed"
  /\ rebooted
  /\ ~reboot_flag

\* C8: once the flow-control token is signalled no frame is written to the
\* slot any more.
C8_NoPushAfterCancel == ~pushAfterAbort

\* C9: when the engine fails to start, install has returned InstallFailed
\* and neither the download thread nor the engine runs, and nothing was
\* pushed.
C9_StartFailure ==
  rc < 0 => /\ install_result = "InstallFailed"
            /\ pc = [bridge |-> "idle", dl |-> "none", eng |-> "none"]
            /\ nPush = 0

\* The engine failed to start and install returned InstallFailed.
C9_Witness ==
  /\ rc < 0
  /\ install_result = "InstallFailed"
  /\ ds.target # NullTarget

\* C10: install returns NeedCompletion only when the engine reported success
\* through the completion callback and no fault was recorded.
C10_NeedCompletionOnlyOnSuccess ==
  install_result = "NeedCompletion"
    => (end_status = "SUCCESS" /\ ~unrecoverable_error)


\* C11: install returns only after the download thread has ended, and when
\* the fetch returned a status other than 200 the result install returns is
\* InstallFailed.
C11_TransportFailureNotDropped ==
  /\ (install_result # "none" /\ rc >= 0) => pc.dl = "done"
  /\ (http_status \notin {0, HTTP_OK} /\ install_result # "none")
       => install_result = "InstallFailed"

\* All bytes were delivered and their digest matched, the fetch then
\* returned another status than 200, and install returned InstallFailed.
C11_Witness ==
  /\ FullLength /\ Supported /\ DigestMatches
  /\ http_status \notin {0, HTTP_OK}
  /\ faultCause = "TransportFailure"
  /\ install_result = "InstallFailed"

\* C12: no fault raised in DownloadHandler or readimage ends the process.
C12_NoProcessExit == proc = "running"

\* The step starts a new process (after exit(-1) or through the reboot of
\* completeInstall).
NewProcess ==
  \/ proc = "exited"
  \/ install_result = "NeedCompletion" /\ install_result' = "none" /\ ds' = NullDs

\* C14: an attempt starts with an empty slot, no fault recorded and no byte
\* delivered, whatever earlier attempts left behind.
C14_FreshAttempt ==
  pc.bridge = "started"
    => /\ ~unrecoverable_error
       /\ ~data_ready
       /\ ds.downloaded_length = 0

\* C15: when install has returned NeedCompletion the reboot-pending marker
\* is set.
C15_NeedCompletionSetsMarker ==
  install_result = "NeedCompletion" => reboot_flag

\* C16: once the fault flag is set it stays set, no frame is written to or
\* taken from the slot, and a push or pull made afterwards returns to its
\* caller: the process goes on.
C16_FaultIsTerminal ==
  [][(proc = "running" /\ unrecoverable_error)
       => /\ unrecoverable_error'
          /\ nPush' <= nPush /\ nPull' <= nPull
          /\ data_buffer' = data_buffer
          /\ data_ready' = data_ready
          /\ proc' = "running"]_vars

\* C18: the bridge's wait on cv_end has returned only if endupdate was
\* called in this attempt, and once endupdate was called the bridge is not
\* left waiting.
C18_LatchReleasedIffEnded ==
  /\ pc.bridge = "woken" => end_status # "none"
  /\ end_status # "none" => pc.bridge # "waiting"

\* The thread that takes the step, for the steps of dl and eng.
Actor == IF pc'.eng # pc.eng THEN "eng" ELSE "dl"

\* C19: a step that changes the slot buffer, the ready or read flag or the
\* fault flag is taken by the thread that holds buffer_mutex.
C19_MutationUnderLock ==
  [][(/\ ~NewProcess
      /\ <<data_buffer, data_ready, data_read, unrecoverable_error>>'
           # <<data_buffer, data_ready, data_read, unrecoverable_error>>)
       => buffer_mutex = Actor]_vars

\* C20: the frames the engine got are the first chunks that were pushed,
\* with the same bytes and the same sizes, and DownloadHandler is back in
\* the fetch only when every pushed frame was pulled.
C20_FramesArePushedChunks ==
  /\ framesIntact
  /\ nPull <= nPush
  /\ pc.dl = "fetch" => nPull = nPush
  /\ (proc = "running" /\ faultCause # "IntegrityMismatch")
       => pulledBytes + (IF data_ready THEN Len(data_buffer) ELSE 0)
            = ds.downloaded_length


\* ---------------------------------------------------------------- fairness
\* Every thread that can take a step takes one: the bridge, the download
\* thread and the engine's thread are scheduled fairly, the fetch goes on
\* (with its next chunk or its response) whenever DownloadHandler has
\* returned, and the engine, when it is not inside readimage, pulls again or
\* reports its completion.
Fairness ==
  /\ WF_vars(SpawnDownload)
  /\ WF_vars(WaitEnd)
  /\ WF_vars(JoinAndReturn)
  /\ WF_vars((\E c \in Chunks : DeliverChunk(c))
               \/ (\E s \in HttpStatuses : FetchReturn(s)))
  /\ WF_vars(HandlerEntry)
  /\ WF_vars(HandlerLock)
  /\ WF_vars(HandlerWait1)
  /\ WF_vars(HandlerWrite)
  /\ WF_vars(HandlerWait2)
  /\ WF_vars(StoreTransportError)
  /\ WF_vars(NotifyTransportError)
  /\ WF_vars(ReadimageLock \/ (\E s \in {"SUCCESS", "FAILURE"} : EndUpdate(s)))
  /\ WF_vars(ReadimagePred)
  /\ WF_vars(ReadimageBlock)
  /\ WF_vars(ReadimageTake)

FairSpec == Spec /\ Fairness

\* The engine is inside the wait of readimage (line 270).
InPullWait == pc.eng \in {"ri_pred", "ri_enqueue", "ri_blocked"}

\* C13: under fair scheduling every call of install returns to its caller;
\* only the end of the whole process (C12) is left aside.
C13_InstallReturns ==
  (pc.bridge # "idle") ~> (pc.bridge = "idle" \/ proc = "exited")

\* C17: when the fault flag is set while the engine is in the wait of
\* readimage, or about to block in it, the engine leaves the wait.
C17_FaultWakesWaiter ==
  (proc = "running" /\ unrecoverable_error /\ InPullWait)
    ~> (~InPullWait \/ proc = "exited")

====
